---- MODULE Spec2Model ----
(***************************************************************************)
(* LAS_CSV_Converter.py: LAS <-> CSV conversion and the height-correction  *)
(* merge through the GPSH web service.                                     *)
(*                                                                         *)
(* Text (str) is a sequence of tokens: "," and "\n" are the two separator  *)
(* characters, every other token is a run of non-separator characters.     *)
(* Python floats are binary floating-point numbers with round-to-nearest-  *)
(* even; the model keeps Precision significand bits instead of 53.         *)
(***************************************************************************)
EXTENDS Integers, Sequences, FiniteSets, TLC

(* ------------------------------------------------------------------ *)
(* Bounds                                                             *)
(* ------------------------------------------------------------------ *)
Precision == 10
MaxRaw == 15
MaxPoints == 2
MaxRows == 3
MaxAttrs == 3
MaxCsvPoints == 3
MaxDecRaw == 1060

(* ------------------------------------------------------------------ *)
(* Floating point: [kind, m, e] is m * 2^e; a finite non-zero value    *)
(* has 2^(Precision-1) <= |m| < 2^Precision.                           *)
(* ------------------------------------------------------------------ *)
Abs(x) == IF x < 0 THEN 0 - x ELSE x

Sign(x) == IF x < 0 THEN 0 - 1 ELSE IF x = 0 THEN 0 ELSE 1

Pow2(n) == 2 ^ n

Fin(m, e) == [kind |-> "fin", m |-> m, e |-> e]

Inf(s) == [kind |-> "inf", m |-> s, e |-> 0]

NaN == [kind |-> "nan", m |-> 0, e |-> 0]

Zero == Fin(0, 0)

\* a/d * 2^e (a >= 0, d > 0) rounded to Precision bits, ties to even
RECURSIVE FlNorm(_, _, _)
FlNorm(a, d, e) ==
    IF a = 0 THEN <<0, 0>>
    ELSE IF a \div d >= Pow2(Precision) THEN FlNorm(a, 2 * d, e + 1)
    ELSE IF a \div d < Pow2(Precision - 1) THEN FlNorm(2 * a, d, e - 1)
    ELSE LET q == a \div d
             r == a % d
             up == (2 * r > d) \/ (2 * r = d /\ q % 2 = 1)
             q1 == IF up THEN q + 1 ELSE q
         IN  IF q1 = Pow2(Precision) THEN <<Pow2(Precision - 1), e + 1>>
             ELSE <<q1, e>>

\* the float nearest to n/d * 2^e (d > 0)
Fl(n, d, e) ==
    LET r == FlNorm(Abs(n), d, e)
    IN  Fin(Sign(n) * r[1], r[2])

\* int -> float
FromInt(i) == Fl(i, 1, 0)

FlMul(x, y) == Fl(x.m * y.m, 1, x.e + y.e)

FlAdd(x, y) ==
    LET lo == IF x.e < y.e THEN x.e ELSE y.e
    IN  IF x.m = 0 THEN y
        ELSE IF y.m = 0 THEN x
        ELSE Fl(x.m * Pow2(x.e - lo) + y.m * Pow2(y.e - lo), 1, lo)

FlNeg(x) == Fin(0 - x.m, x.e)

FlSub(x, y) == FlAdd(x, FlNeg(y))

\* numpy float64 division: x/0 is inf or nan (a warning, no exception)
FlDiv(x, y) ==
    IF y.m = 0 THEN (IF x.m = 0 THEN NaN ELSE Inf(Sign(x.m)))
    ELSE Fl(x.m * Sign(y.m), Abs(y.m), x.e - y.e)

FlPositive(x) == x.kind = "fin" /\ x.m > 0

\* the integer nearest to a finite float, ties to even (Python round)
RoundNearest(x) ==
    IF x.e >= 0 THEN x.m * Pow2(x.e)
    ELSE IF 0 - x.e > 2 * Precision THEN 0
    ELSE LET d == Pow2(0 - x.e)
             q == Abs(x.m) \div d
             r == Abs(x.m) % d
             up == (2 * r > d) \/ (2 * r = d /\ q % 2 = 1)
         IN  Sign(x.m) * (IF up THEN q + 1 ELSE q)

\* the integer part of a finite float (C cast, toward zero)
TruncZero(x) ==
    IF x.e >= 0 THEN x.m * Pow2(x.e)
    ELSE IF 0 - x.e > 2 * Precision THEN 0
    ELSE Sign(x.m) * (Abs(x.m) \div Pow2(0 - x.e))

(* ------------------------------------------------------------------ *)
(* ScaledPoint codec                                                  *)
(* ------------------------------------------------------------------ *)
\* Exact decimal numbers [kind "dec", m, e]: m + e / 10^DecDigits with
\* 0 <= e < 10^DecDigits, for header values written with four decimals
\* (offset 329999.8947, scale 0.0001), which the model's floats cannot hold.
DecDigits == 4

DecUnit == 10 ^ DecDigits

Dec(ip, fp) == [kind |-> "dec", m |-> ip + fp \div DecUnit, e |-> fp % DecUnit]

DecMulInt(i, x) == Dec(i * x.m, i * x.e)

DecAdd(x, y) == Dec(x.m + y.m, x.e + y.e)

\* attribute * scale
NumMulInt(attribute, scale) ==
    IF scale.kind = "dec" THEN DecMulInt(attribute, scale)
    ELSE FlMul(FromInt(attribute), scale)

\* ... + offset
NumAdd(x, offset) ==
    IF offset.kind = "dec" THEN DecAdd(x, offset) ELSE FlAdd(x, offset)

\* decode without the offset
decode_no_offset(attribute, scale, offset) == NumMulInt(attribute, scale)

\* outValue = ( attribute * scale ) + offset
decode(attribute, scale, offset) == NumAdd(NumMulInt(attribute, scale), offset)

\* new_heights[i] = (new_heights[i] - z_offset) / z_scale
encode(height, z_offset, z_scale) == FlDiv(FlSub(height, z_offset), z_scale)

\* what an inf or a nan leaves in an int32 field: the cast is undefined,
\* the outcomes are INT_MIN (x86), a saturated value or 0 (ARM)
CastGarbage == {0 - 2147483647 - 1, 0, 2147483647}

\* rwStream.Z = new_heights: each float is cast to the int32 field
ZStore(x) ==
    IF x.kind = "fin" THEN {TruncZero(x)} ELSE CastGarbage

(* ------------------------------------------------------------------ *)
(* Text: str.split, header names, numeric literals                    *)
(* ------------------------------------------------------------------ *)
\* str.split(sep): "" splits into [""]
RECURSIVE Split(_, _)
Split(s, sep) ==
    IF s = <<>> THEN << <<>> >>
    ELSE LET rest == Split(Tail(s), sep)
         IN  IF Head(s) = sep THEN << <<>> >> \o rest
             ELSE << <<Head(s)>> \o rest[1] >> \o Tail(rest)

\* float(str) of the literals the responses carry; anything else is a ValueError
NumLit ==
    [t \in {"7", "8", "3", "2.5"} |->
        CASE t = "7" -> FromInt(7)
          [] t = "8" -> FromInt(8)
          [] t = "3" -> FromInt(3)
          [] t = "2.5" -> Fl(5, 2, 0)]

IsNumeric(field) == Len(field) = 1 /\ field[1] \in DOMAIN NumLit

ParseFloat(field) == NumLit[field[1]]

(* ------------------------------------------------------------------ *)
(* FileInfo and LASFileManager                                         *)
(* ------------------------------------------------------------------ *)
FileInfo(num_points, x_offset, y_offset, z_offset, x_scale, y_scale, z_scale, header_size, attributes) ==
    [num_points |-> num_points,
     x_offset |-> x_offset, y_offset |-> y_offset, z_offset |-> z_offset,
     x_scale |-> x_scale, y_scale |-> y_scale, z_scale |-> z_scale,
     header_size |-> header_size, attributes |-> attributes]

\* LASFileManager.open_read_stream: the FileInfo of an opened LAS file
open_read_stream(f) ==
    FileInfo(Len(f.points),
             f.header.offset[1], f.header.offset[2], f.header.offset[3],
             f.header.scale[1], f.header.scale[2], f.header.scale[3],
             Len(f.point_format), f.point_format)

NoFileInfo == FileInfo(0, Zero, Zero, Zero, Zero, Zero, Zero, 0, <<>>)

\* FileInfo.get_header: the loop from attribute number index (1-based) on
RECURSIVE get_header_from(_, _, _)
get_header_from(info, index, head) ==
    IF index > Len(info.attributes) THEN head
    ELSE get_header_from(info, index + 1,
            head \o <<info.attributes[index]>>
                 \o (IF index < info.header_size THEN <<",">> ELSE <<>>))

\* get_header with a delimiter after every name
get_header_trailing(info) == get_header_from(info, 1, <<>>) \o <<",">>

get_header(info) == get_header_from(info, 1, <<>>)

\* position of a dimension in the point format (laspy's lookup by name)
RECURSIVE DimIndex(_, _, _)
DimIndex(fmt, name, i) ==
    IF i > Len(fmt) THEN 0
    ELSE IF fmt[i] = name THEN i
    ELSE DimIndex(fmt, name, i + 1)

\* a dimension of the point records (rwStream.X, .Y, .Z)
Column(f, name) ==
    LET k == DimIndex(f.point_format, name, 1)
    IN  [i \in 1 .. Len(f.points) |-> f.points[i][k]]

(* ------------------------------------------------------------------ *)
(* las_to_csv / las_to_csv_sub                                         *)
(* ------------------------------------------------------------------ *)
\* the value written for attribute number index (0-based) of a point
csv_value(info, index, attribute) ==
    IF info.attributes[index + 1] = "X" THEN decode(attribute, info.x_scale, info.x_offset)
    ELSE IF info.attributes[index + 1] = "Y" THEN decode(attribute, info.y_scale, info.y_offset)
    ELSE IF info.attributes[index + 1] = "Z" THEN decode(attribute, info.z_scale, info.z_offset)
    ELSE attribute

\* las_to_csv: the line of one point, from attribute number index on
RECURSIVE csv_line_from(_, _, _, _)
csv_line_from(info, point, index, line) ==
    IF index >= Len(point) THEN line
    ELSE csv_line_from(info, point, index + 1,
            line \o <<ToString(csv_value(info, index, point[index + 1]))>>
                 \o (IF index < info.header_size - 1 THEN <<",">> ELSE <<>>))

csv_line(info, point) == csv_line_from(info, point, 0, <<>>)

\* a write that leaves the line unterminated
write_unterminated(file, content) == file \o content

\* outFile.write(content + "\n")
write_line(file, content) == file \o content \o <<"\n">>

\* las_to_csv_sub: the line of one point; the loop breaks at the first
\* attribute that is neither X, Y, Z nor the fourth
RECURSIVE sub_line_from(_, _, _, _, _)
sub_line_from(info, point, utm_zone, index, line) ==
    IF index >= Len(point) THEN line
    ELSE IF info.attributes[index + 1] \in {"X", "Y", "Z"} \/ index = 3
         THEN sub_line_from(info, point, utm_zone, index + 1,
                line \o <<(IF info.attributes[index + 1] \in {"X", "Y", "Z"}
                           THEN ToString(csv_value(info, index, point[index + 1]))
                           ELSE utm_zone)>>
                     \o (IF index < 3 THEN <<",">> ELSE <<>>))
         ELSE line

sub_line(info, point, utm_zone) == sub_line_from(info, point, utm_zone, 0, <<>>)

\* las_to_csv_sub: every line written to the output file
las_to_csv_sub(f, utm_zone) ==
    LET info == open_read_stream(f)
    IN  << <<"utm_e", ",", "utm_n", ",", "height", ",", "utm_z">> >>
        \o [i \in 1 .. Len(f.points) |-> sub_line(info, f.points[i], utm_zone)]

(* ------------------------------------------------------------------ *)
(* WebService                                                          *)
(* ------------------------------------------------------------------ *)
None == "None"

WebService(service_url, model, frame, epoch, tocsv) ==
    [service_url |-> service_url, model |-> model, frame |-> frame,
     epoch |-> epoch, tocsv |-> tocsv,
     lang |-> "en", conversion |-> "on", projection |-> "geo", westpos |-> "true"]

UrlOf(type, old) ==
    IF type = "batch" THEN "https://webapp.geod.nrcan.gc.ca/CSRS/tools/GPSH/upload"
    ELSE IF type = "CGG2013a" THEN "https://webapp.geod.nrcan.gc.ca/CSRS/tools/GPSH/CGG2013a"
    ELSE IF type = "HT2_0_CGG2013a"
         THEN "https://webapp.geod.nrcan.gc.ca/CSRS/tools/GPSH/HT2_0_CGG2013a"
    ELSE old

setConversionType(self, type, projection) ==
    [self EXCEPT !.service_url = UrlOf(type, self.service_url),
                 !.projection = projection]

\* batch_call, the client after the call
batch_call_self(self) == setConversionType(self, "batch", self.conversion)

\* append_rows without the column count test
RECURSIVE append_rows_unchecked(_, _)
append_rows_unchecked(matrix, data) ==
    IF data = <<>> THEN matrix
    ELSE append_rows_unchecked(Append(matrix, Split(Head(data), ",")), Tail(data))

\* batch_call, the rows appended to the header row (for row in data)
RECURSIVE append_rows(_, _)
append_rows(matrix, data) ==
    IF data = <<>> THEN matrix
    ELSE LET row_data == Split(Head(data), ",")
         IN  append_rows(IF Len(matrix[1]) = Len(row_data)
                         THEN Append(matrix, row_data) ELSE matrix,
                         Tail(data))

\* batch_call, the parse of req.text
batch_call_matrix(text) ==
    LET data == Split(text, "\n")
        header == Head(data)
    IN  append_rows(<<Split(header, ",")>>, Tail(data))

(* ------------------------------------------------------------------ *)
(* extract_height and the merge                                        *)
(* ------------------------------------------------------------------ *)
\* res: the indices of the header columns named height_code, ascending
matching_columns(header, height_code) ==
    {i \in 1 .. Len(header) : header[i] = height_code}

Min(S) == CHOOSE x \in S : \A y \in S : x <= y

Max(S) == CHOOSE x \in S : \A y \in S : x >= y

\* extract_height taking the last matching column (res[-1])
extract_height_last(matrix, height_code) ==
    LET res == matching_columns(matrix[1], height_code)
    IN  IF res = {} THEN [err |-> "IndexError", val |-> <<>>]
        ELSE [err |-> "none",
              val |-> [i \in 1 .. Len(matrix) - 1 |-> matrix[i + 1][Max(res)]]]

\* matrix[1:, res[0]]; res[0] of an empty res is an IndexError (a LookupError)
extract_height(matrix, height_code) ==
    LET res == matching_columns(matrix[1], height_code)
    IN  IF res = {} THEN [err |-> "IndexError", val |-> <<>>]
        ELSE [err |-> "none",
              val |-> [i \in 1 .. Len(matrix) - 1 |-> matrix[i + 1][Min(res)]]]

\* .astype(np.float)
astype_float(col) ==
    IF \A i \in 1 .. Len(col) : IsNumeric(col[i])
    THEN [err |-> "none", val |-> [i \in 1 .. Len(col) |-> ParseFloat(col[i])]]
    ELSE [err |-> "ValueError", val |-> <<>>]

\* for i in range(len(new_heights)): new_heights[i] = (new_heights[i] - z_offset) / z_scale
rescale(heights, info) ==
    [i \in 1 .. Len(heights) |-> encode(heights[i], info.z_offset, info.z_scale)]

\* a setter that takes a column of any length
Z_never_refused(f, heights) == FALSE

\* rwStream.Z = new_heights is refused (LaspyException) when the column has
\* another length than the file has points
Z_refused(f, heights) == Len(heights) # Len(f.points)

\* the int32 columns the cast of new_heights can give
cast_columns(heights) ==
    {z \in [1 .. Len(heights) -> UNION {ZStore(heights[k]) : k \in 1 .. Len(heights)}] :
        \A k \in 1 .. Len(heights) : z[k] \in ZStore(heights[k])}

\* the file after rwStream.Z = z
with_Z(f, z) ==
    LET zi == DimIndex(f.point_format, "Z", 1)
    IN  [f EXCEPT !.points =
            [i \in 1 .. Len(f.points) |->
                IF i <= Len(z) THEN [f.points[i] EXCEPT ![zi] = z[i]]
                ELSE f.points[i]]]

(* ------------------------------------------------------------------ *)
(* State                                                               *)
(* ------------------------------------------------------------------ *)
VARIABLES
    pc,            \* position in the script or function being run
    err,           \* the exception that ended the run, "none" while running
    in_file,       \* the LAS file read (header, point_format, points)
    main_file,     \* FileInfo of in_file
    wbservice,     \* the WebService object
    prewb,         \* lines of the CSV extract sent to the service
    response,      \* req.text
    matrix,        \* the table batch_call returns
    out_file,      \* the copy of in_file the merge writes to
    batch_file,    \* FileInfo of out_file
    height_col,    \* what extract_height returned
    new_heights,   \* new_heights
    sent,          \* parameters of the last single_point request
    outFile,       \* lines las_to_csv has written
    progressCounter,
    cRaw, cScale, cOffset, cReal, cBack   \* codec: raw, header values, decoded, re-encoded

vars == <<pc, err, in_file, main_file, wbservice, prewb, response, matrix,
          out_file, batch_file, height_col, new_heights, sent, outFile,
          progressCounter, cRaw, cScale, cOffset, cReal, cBack>>

scriptVars == <<in_file, main_file, wbservice, prewb, response, matrix,
                out_file, batch_file, height_col, new_heights>>

codecVars == <<cRaw, cScale, cOffset, cReal, cBack>>

csvVars == <<outFile, progressCounter>>

(* ------------------------------------------------------------------ *)
(* Inputs                                                              *)
(* ------------------------------------------------------------------ *)
LasFormat == <<"X", "Y", "Z", "intensity">>

\* the height code the script asks for
HeightCode == <<"H2013">>

\* raw attribute values of point number i
Point(i) == <<10 * i + 1, 10 * i + 2, 10 * i + 3, i>>

One == FromInt(1)

LasHeaders ==
    {[scale |-> <<One, One, One>>, offset |-> <<Zero, Zero, Zero>>],
     [scale |-> <<One, One, FromInt(2)>>, offset |-> <<Zero, Zero, One>>],
     [scale |-> <<Fl(1, 10, 0), Fl(1, 10, 0), Fl(1, 4, 0)>>,
      offset |-> <<FromInt(3), Zero, Fl(1, 2, 0)>>],
     [scale |-> <<One, One, Zero>>, offset |-> <<Zero, Zero, Zero>>],
     [scale |-> <<FromInt(0 - 1), One, One>>, offset |-> <<Zero, Zero, Zero>>]}

LasFiles ==
    {[header |-> h, point_format |-> LasFormat, points |-> [i \in 1 .. n |-> Point(i)]] :
        h \in LasHeaders, n \in 0 .. MaxPoints}

NoFile == [header |-> [scale |-> <<One, One, One>>, offset |-> <<Zero, Zero, Zero>>],
           point_format |-> <<>>, points |-> <<>>]

HeaderLines ==
    {<<"utm_e", ",", "utm_n", ",", "H2013", ",", "utm_z">>,
     <<"utm_e", ",", "utm_n", ",", "h2013", ",", "utm_z">>,
     <<"utm_e", ",", "H2013", ",", "H2013", ",", "utm_z">>,
     <<"H2013">>}

DataLines ==
    {<<"3", ",", "7", ",", "8", ",", "ON-9">>,
     <<"8", ",", "3", ",", "2.5", ",", "ON-9">>,
     <<"3", ",", "7", ",", "8">>,
     <<"7">>,
     <<>>}

RECURSIVE JoinLines(_)
JoinLines(lines) ==
    IF lines = <<>> THEN <<>>
    ELSE IF Len(lines) = 1 THEN lines[1]
    ELSE lines[1] \o <<"\n">> \o JoinLines(Tail(lines))

ResponseTexts ==
    {JoinLines(<<h>> \o rows) :
        h \in HeaderLines, rows \in UNION {[1 .. k -> DataLines] : k \in 0 .. MaxRows}}

NoService == WebService("", "", "", "", FALSE)

ScriptIdle ==
    /\ in_file = NoFile /\ main_file = NoFileInfo /\ wbservice = NoService
    /\ prewb = <<>> /\ response = <<>> /\ matrix = <<>> /\ out_file = NoFile
    /\ batch_file = NoFileInfo /\ height_col = <<>> /\ new_heights = <<>>

CodecIdle ==
    /\ cRaw = 0 /\ cScale = Zero /\ cOffset = Zero /\ cReal = Zero /\ cBack = 0

CsvIdle == outFile = <<>> /\ progressCounter = 0

(* ------------------------------------------------------------------ *)
(* The main script (batch conversion)                                  *)
(* ------------------------------------------------------------------ *)
Init ==
    /\ pc = "start"
    /\ err = "none"
    /\ in_file \in LasFiles
    /\ main_file = NoFileInfo /\ wbservice = NoService
    /\ prewb = <<>> /\ response = <<>> /\ matrix = <<>> /\ out_file = NoFile
    /\ batch_file = NoFileInfo /\ height_col = <<>> /\ new_heights = <<>>
    /\ sent = <<>>
    /\ CsvIdle /\ CodecIdle

\* file_manager.open_read_stream(); main_file = file_manager.fileInfo
OpenMain ==
    /\ pc = "start"
    /\ main_file' = open_read_stream(in_file)
    /\ pc' = "opened"
    /\ UNCHANGED <<err, in_file, wbservice, prewb, response, matrix, out_file,
                   batch_file, height_col, new_heights, sent, csvVars, codecVars>>

\* wbservice = WebService(...); wbservice.setConversionType("HT2_0_CGG2013a","plan")
Configure ==
    /\ pc = "opened"
    /\ wbservice' = setConversionType(
            WebService("", "HT2_0_CGG2013a", "NAD83%28CSRS%29", "1997-01-01", FALSE),
            "HT2_0_CGG2013a", "plan")
    /\ pc' = "configured"
    /\ UNCHANGED <<err, in_file, main_file, prewb, response, matrix, out_file,
                   batch_file, height_col, new_heights, sent, csvVars, codecVars>>

\* las_to_csv_sub(in_file, pre_web_service, "ON-9")
LasToCsvSub ==
    /\ pc = "configured"
    /\ prewb' = las_to_csv_sub(in_file, "ON-9")
    /\ pc' = "extracted"
    /\ UNCHANGED <<err, in_file, main_file, wbservice, response, matrix, out_file,
                   batch_file, height_col, new_heights, sent, csvVars, codecVars>>

\* matrix = wbservice.batch_call(pre_web_service); the service answers any text
BatchCall ==
    /\ pc = "extracted"
    /\ \E text \in ResponseTexts :
          /\ response' = text
          /\ matrix' = batch_call_matrix(text)
    /\ wbservice' = batch_call_self(wbservice)
    /\ pc' = "called"
    /\ UNCHANGED <<err, in_file, main_file, prewb, out_file,
                   batch_file, height_col, new_heights, sent, csvVars, codecVars>>

\* shutil.copy(in_file, out_file); file_manager2.open_read_stream()
CopyOpen ==
    /\ pc = "called"
    /\ out_file' = in_file
    /\ batch_file' = open_read_stream(in_file)
    /\ pc' = "copied"
    /\ UNCHANGED <<err, in_file, main_file, wbservice, prewb, response, matrix,
                   height_col, new_heights, sent, csvVars, codecVars>>

\* extract_height(matrix,"H2013")
ExtractHeight ==
    /\ pc = "copied"
    /\ LET r == extract_height(matrix, HeightCode)
       IN  /\ height_col' = r.val
           /\ err' = r.err
           /\ pc' = IF r.err = "none" THEN "column" ELSE "failed"
    /\ UNCHANGED <<in_file, main_file, wbservice, prewb, response, matrix, out_file,
                   batch_file, new_heights, sent, csvVars, codecVars>>

\* .astype(np.float)
AsTypeFloat ==
    /\ pc = "column"
    /\ LET r == astype_float(height_col)
       IN  /\ new_heights' = r.val
           /\ err' = r.err
           /\ pc' = IF r.err = "none" THEN "floats" ELSE "failed"
    /\ UNCHANGED <<in_file, main_file, wbservice, prewb, response, matrix, out_file,
                   batch_file, height_col, sent, csvVars, codecVars>>

\* the loop over new_heights
Rescale ==
    /\ pc = "floats"
    /\ new_heights' = rescale(new_heights, batch_file)
    /\ pc' = "rescaled"
    /\ UNCHANGED <<err, in_file, main_file, wbservice, prewb, response, matrix, out_file,
                   batch_file, height_col, sent, csvVars, codecVars>>

\* rwStream.Z = new_heights
AssignZ ==
    /\ pc = "rescaled"
    /\ IF Z_refused(out_file, new_heights)
       THEN /\ err' = "LaspyException"
            /\ pc' = "failed"
            /\ UNCHANGED out_file
       ELSE /\ \E z \in cast_columns(new_heights) : out_file' = with_Z(out_file, z)
            /\ pc' = "assigned"
            /\ UNCHANGED err
    /\ UNCHANGED <<in_file, main_file, wbservice, prewb, response, matrix,
                   batch_file, height_col, new_heights, sent, csvVars, codecVars>>

\* rwStream.close() ... readStream.close()
Close ==
    /\ pc = "assigned"
    /\ pc' = "done"
    /\ UNCHANGED <<err, scriptVars, sent, csvVars, codecVars>>

Next ==
    \/ OpenMain
    \/ Configure
    \/ LasToCsvSub
    \/ BatchCall
    \/ CopyOpen
    \/ ExtractHeight
    \/ AsTypeFloat
    \/ Rescale
    \/ AssignZ
    \/ Close

Spec == Init /\ [][Next]_vars

(* ------------------------------------------------------------------ *)
(* The codec on floats: decode, then the encode of the merge            *)
(* ------------------------------------------------------------------ *)
ScaleSet == {Fl(1, 10, 0), Fl(1, 3, 0), Fl(1, 4, 0), FromInt(1), FromInt(2)}

OffsetSet == {Zero, FromInt(3), Fl(7, 2, 0), Fl(1, 10, 0)}

CodecInit ==
    /\ pc = "raw"
    /\ err = "none"
    /\ cRaw \in 0 .. MaxRaw
    /\ cScale \in ScaleSet
    /\ cOffset \in OffsetSet
    /\ cReal = Zero
    /\ cBack = 0
    /\ sent = <<>>
    /\ ScriptIdle /\ CsvIdle

CodecDecode ==
    /\ pc = "raw"
    /\ cReal' = decode(cRaw, cScale, cOffset)
    /\ pc' = "real"
    /\ UNCHANGED <<err, scriptVars, sent, csvVars, cRaw, cScale, cOffset, cBack>>

CodecEncode ==
    /\ pc = "real"
    /\ cBack' \in ZStore(encode(cReal, cOffset, cScale))
    /\ pc' = "back"
    /\ UNCHANGED <<err, scriptVars, sent, csvVars, cRaw, cScale, cOffset, cReal>>

CodecNext == CodecDecode \/ CodecEncode

SpecCodec == CodecInit /\ [][CodecNext]_vars

(* ------------------------------------------------------------------ *)
(* decode on the header values of csv_to_las, in exact decimals         *)
(* ------------------------------------------------------------------ *)
\* scale = [0.0001, ...]
DecScales == {Dec(0, 1)}

\* offset = [329999.8947, 4839000.0062, 0.0]
DecOffsets == {Dec(329999, 8947), Dec(4839000, 62), Dec(0, 0)}

DecodeInit ==
    /\ pc = "raw"
    /\ err = "none"
    /\ cRaw \in 0 .. MaxDecRaw
    /\ cScale \in DecScales
    /\ cOffset \in DecOffsets
    /\ cReal = Zero
    /\ cBack = 0
    /\ sent = <<>>
    /\ ScriptIdle /\ CsvIdle

DecodeNext == CodecDecode

SpecDecode == DecodeInit /\ [][DecodeNext]_vars

(* ------------------------------------------------------------------ *)
(* las_to_csv                                                          *)
(* ------------------------------------------------------------------ *)
AttrNames == {"X", "Y", "Z", "intensity"}

Schemas == UNION {[1 .. k -> AttrNames] : k \in 0 .. MaxAttrs}

CsvHeaders ==
    {[scale |-> <<One, One, FromInt(2)>>, offset |-> <<Zero, Zero, One>>],
     [scale |-> <<Zero, FromInt(0 - 1), One>>, offset |-> <<Zero, Zero, Zero>>]}

CsvFiles ==
    {[header |-> h, point_format |-> a,
      points |-> [i \in 1 .. n |-> [k \in 1 .. Len(a) |-> Point(i)[1 + ((k - 1) % 4)]]]] :
        h \in CsvHeaders, a \in Schemas, n \in 0 .. MaxCsvPoints}

CsvInit ==
    /\ pc = "csv_start"
    /\ err = "none"
    /\ in_file \in CsvFiles
    /\ main_file = NoFileInfo /\ wbservice = NoService
    /\ prewb = <<>> /\ response = <<>> /\ matrix = <<>> /\ out_file = NoFile
    /\ batch_file = NoFileInfo /\ height_col = <<>> /\ new_heights = <<>>
    /\ sent = <<>>
    /\ CsvIdle /\ CodecIdle

\* open the streams, file_info = fileManager.fileInfo (kept in main_file),
\* outFile.write(file_info.get_header() + "\n")
CsvOpen ==
    /\ pc = "csv_start"
    /\ main_file' = open_read_stream(in_file)
    /\ outFile' = write_line(<<>>, get_header(open_read_stream(in_file)))
    /\ progressCounter' = 0
    /\ pc' = "csv_loop"
    /\ UNCHANGED <<err, in_file, wbservice, prewb, response, matrix, out_file,
                   batch_file, height_col, new_heights, sent, codecVars>>

\* one turn of: for points_list in inFile.points (a record of inFile.points
\* holds one point, so the inner loop writes one line)
CsvWritePoint ==
    /\ pc = "csv_loop"
    /\ progressCounter < Len(in_file.points)
    /\ outFile' = write_line(outFile, csv_line(main_file, in_file.points[progressCounter + 1]))
    /\ progressCounter' = progressCounter + 1
    /\ UNCHANGED <<pc, err, scriptVars, sent, codecVars>>

\* inFile.close(); outFile.close()
CsvClose ==
    /\ pc = "csv_loop"
    /\ progressCounter = Len(in_file.points)
    /\ pc' = "csv_done"
    /\ UNCHANGED <<err, scriptVars, sent, csvVars, codecVars>>

CsvNext == CsvOpen \/ CsvWritePoint \/ CsvClose

SpecCsv == CsvInit /\ [][CsvNext]_vars

(* ------------------------------------------------------------------ *)
(* Calls on one WebService                                             *)
(* ------------------------------------------------------------------ *)
ConversionTypes == {"batch", "CGG2013a", "HT2_0_CGG2013a", "other"}

Projections == {"geo", "plan"}

\* keyword arguments of single_point: None or a value
Overrides ==
    [type : {None, "CGG2013a"}, projection : {None, "plan", "geo"},
     lang : {None, "fr"}, conversion : {None, "off"}, westpos : {None},
     model : {None, "CGG2013a"}, frame : {None}, epoch : {None}]

WsResponses == {JoinLines(<<h>>) : h \in HeaderLines}

Or(v, old) == IF v # None THEN v ELSE old

\* single_point: the settings after the overrides
single_point_self(self, kw) ==
    [self EXCEPT !.projection = Or(kw.projection, self.projection),
                 !.lang = Or(kw.lang, self.lang),
                 !.conversion = Or(kw.conversion, self.conversion),
                 !.westpos = Or(kw.westpos, self.westpos),
                 !.model = Or(kw.model, self.model),
                 !.frame = Or(kw.frame, self.frame),
                 !.epoch = Or(kw.epoch, self.epoch)]

\* single_point: the dict of params sent to the web service
single_point_data(self, x, y, z) ==
    LET data == [lang |-> self.lang, proj |-> self.projection,
                 conversion |-> self.conversion, westpos |-> self.westpos,
                 model |-> self.model, frame |-> self.frame, epoch |-> self.epoch,
                 x |-> x, y |-> y, z |-> z]
    IN  IF self.projection = "plan" THEN data @@ ("zone" :> "ON-9") ELSE data

WsInit ==
    /\ pc = "ws"
    /\ err = "none"
    /\ wbservice = WebService("", "HT2_0_CGG2013a", "NAD83%28CSRS%29", "1997-01-01", FALSE)
    /\ in_file = NoFile /\ main_file = NoFileInfo
    /\ prewb = <<>> /\ response = <<>> /\ matrix = <<>> /\ out_file = NoFile
    /\ batch_file = NoFileInfo /\ height_col = <<>> /\ new_heights = <<>>
    /\ sent = <<>>
    /\ CsvIdle /\ CodecIdle

WsSetConversionType ==
    /\ pc = "ws"
    /\ \E type \in ConversionTypes, projection \in Projections :
          wbservice' = setConversionType(wbservice, type, projection)
    /\ UNCHANGED <<pc, err, in_file, main_file, prewb, response, matrix, out_file,
                   batch_file, height_col, new_heights, sent, csvVars, codecVars>>

WsBatchCall ==
    /\ pc = "ws"
    /\ \E text \in WsResponses :
          /\ response' = text
          /\ matrix' = batch_call_matrix(text)
    /\ wbservice' = batch_call_self(wbservice)
    /\ UNCHANGED <<pc, err, in_file, main_file, prewb, out_file,
                   batch_file, height_col, new_heights, sent, csvVars, codecVars>>

\* single_point; self.setServiceURL does not exist, so a call that gives a
\* type ends in an AttributeError before anything is set
WsSinglePoint ==
    /\ pc = "ws"
    /\ \E kw \in Overrides :
          IF kw.type # None
          THEN /\ err' = "AttributeError"
               /\ pc' = "failed"
               /\ UNCHANGED <<wbservice, sent>>
          ELSE /\ wbservice' = single_point_self(wbservice, kw)
               /\ sent' = single_point_data(single_point_self(wbservice, kw), "1", "2", "3")
               /\ UNCHANGED <<pc, err>>
    /\ UNCHANGED <<in_file, main_file, prewb, response, matrix, out_file,
                   batch_file, height_col, new_heights, csvVars, codecVars>>

WsNext == WsSetConversionType \/ WsBatchCall \/ WsSinglePoint

SpecWS == WsInit /\ [][WsNext]_vars

(* ------------------------------------------------------------------ *)
(* Properties                                                          *)
(* ------------------------------------------------------------------ *)
RECURSIVE JoinComma(_)
JoinComma(names) ==
    IF names = <<>> THEN <<>>
    ELSE IF Len(names) = 1 THEN <<names[1]>>
    ELSE <<names[1], ",">> \o JoinComma(Tail(names))

AfterCall == pc \notin {"start", "opened", "configured", "extracted"}

AfterExtract == AfterCall /\ pc \notin {"called", "copied"}

\* the leftmost header column named code, 0 when there is none
FirstNamed(header, code) ==
    IF \E i \in 1 .. Len(header) : header[i] = code
    THEN CHOOSE i \in 1 .. Len(header) :
            header[i] = code /\ \A j \in 1 .. i - 1 : header[j] # code
    ELSE 0

ScalesPositive(info) ==
    FlPositive(info.x_scale) /\ FlPositive(info.y_scale) /\ FlPositive(info.z_scale)

\* C1: after the merge of n response rows into n points, every raw Z is the
\* response height of its row encoded with the Z scale and offset, rounded to
\* the nearest integer, and X and Y are as before.
C1_MergeAlignment ==
    (pc = "assigned" /\ ScalesPositive(batch_file)) =>
        /\ \A i \in 1 .. Len(out_file.points) :
              Column(out_file, "Z")[i]
                = RoundNearest(encode(ParseFloat(height_col[i]),
                                      batch_file.z_offset, batch_file.z_scale))
        /\ Column(out_file, "X") = Column(in_file, "X")
        /\ Column(out_file, "Y") = Column(in_file, "Y")

\* C1: a merge of two rows into two points has happened
C1_Merged == pc = "assigned" /\ Len(out_file.points) = 2 /\ ScalesPositive(batch_file)

C3_RoundTrip == pc = "back" => cBack = cRaw

\* the same round trip with the quotient rounded to the nearest integer, as
\* the ScaleOffset invariant words it (holds for every input drawn here)
RoundTripNearest ==
    pc = "back" => RoundNearest(encode(cReal, cOffset, cScale)) = cRaw

\* C4: extract_height gives, in row order, the values of the leftmost column
\* whose header name is the height code, compared case-sensitively; with no
\* such column the lookup ends in an IndexError (a LookupError) and gives nothing.
C4_ColumnLookup ==
    AfterExtract =>
        LET k == FirstNamed(matrix[1], HeightCode)
        IN  IF k = 0
            THEN err = "IndexError" /\ pc = "failed" /\ height_col = <<>>
            ELSE /\ err # "IndexError"
                 /\ Len(height_col) = Len(matrix) - 1
                 /\ \A r \in 1 .. Len(height_col) : height_col[r] = matrix[r + 1][k]

\* C4: a header naming h2013 but not H2013, the lookup failed
C4_CaseMiss ==
    /\ pc = "failed" /\ err = "IndexError"
    /\ \E i \in 1 .. Len(matrix[1]) : matrix[1][i] = <<"h2013">>
    /\ Len(matrix) > 1

Scenario3 ==
    JoinLines(<< <<"utm_e", ",", "utm_n", ",", "H2013", ",", "utm_z">>,
                 <<"3", ",", "7", ",", "8", ",", "ON-9">>,
                 <<"3", ",", "7", ",", "8">>,
                 <<"8", ",", "3", ",", "2.5", ",", "ON-9">> >>)

\* C5: the table is the header row followed by exactly the response lines
\* with the header's field count, in order; every row has that count; the
\* scenario's response gives two data rows and H2013 as third column.
C5_ParsedRows ==
    AfterCall =>
        LET lines == Split(response, "\n")
            hdr == Split(lines[1], ",")
            SameWidth(l) == Len(Split(l, ",")) = Len(hdr)
            kept == SelectSeq(Tail(lines), SameWidth)
        IN  /\ matrix[1] = hdr
            /\ Len(matrix) = Len(kept) + 1
            /\ \A i \in 1 .. Len(kept) : matrix[i + 1] = Split(kept[i], ",")
            /\ \A i \in 1 .. Len(matrix) : Len(matrix[i]) = Len(hdr)
            /\ (response = Scenario3 =>
                    Len(matrix) = 3 /\ matching_columns(matrix[1], HeightCode) = {3})

\* C5: the scenario's response has been parsed
C5_Scenario3Parsed == pc = "called" /\ response = Scenario3 /\ Len(matrix) = 3

\* C6 as stated: raw 1000, scale 0.0001, offset 329999.8947 decode to 330000.0.
C6_DecodeScenarioStated ==
    (pc = "real" /\ cRaw = 1000 /\ cScale = Dec(0, 1) /\ cOffset = Dec(329999, 8947))
        => cReal = Dec(330000, 0)

\* C6 amended: raw 1000, scale 0.0001, offset 329999.8947 decode to
\* 329999.9947; with that scale and offset 330000.0 is the decode of raw 1053.
C6_DecodeScenario ==
    (pc = "real" /\ cScale = Dec(0, 1) /\ cOffset = Dec(329999, 8947)) =>
        /\ (cRaw = 1000 => cReal = Dec(329999, 9947))
        /\ (cReal = Dec(330000, 0) <=> cRaw = 1053)

\* C6: the scenario's decode has happened
C6_ScenarioDecoded ==
    /\ pc = "real" /\ cRaw = 1000 /\ cScale = Dec(0, 1) /\ cOffset = Dec(329999, 8947)
    /\ cReal = Dec(329999, 9947)

\* C7: no coordinate is decoded (las_to_csv_sub) or encoded (the merge) with
\* a scale that is zero or negative on some axis.
C7_NonPositiveScaleRejected ==
    /\ (Len(prewb) > 1 => ScalesPositive(main_file))
    /\ ((pc \in {"rescaled", "assigned", "done"} /\ new_heights # <<>>)
            => ScalesPositive(batch_file))

\* C8: get_header is the attribute names joined by commas, in order, with no
\* leading or trailing delimiter, and the names are those of the file.
C8_HeaderFidelity ==
    pc # "csv_start" =>
        LET h == get_header(main_file)
        IN  /\ main_file.attributes = in_file.point_format
            /\ h = JoinComma(main_file.attributes)
            /\ (h # <<>> => h[1] # "," /\ h[Len(h)] # ",")
            /\ Split(outFile, "\n")[1] = h

\* C8: the header of a three-attribute schema has been built
C8_HeaderBuilt ==
    /\ pc = "csv_loop"
    /\ in_file.point_format = <<"Z", "intensity", "X">>
    /\ Split(outFile, "\n")[1] = <<"Z", ",", "intensity", ",", "X">>

\* C9: las_to_csv writes n+1 newline-terminated lines for n points: the header
\* line, then the line of each point in source order.
C9_RowCount ==
    LET lines == Split(outFile, "\n")
        n == Len(in_file.points)
    IN  /\ (pc = "csv_loop" =>
                Len(lines) = progressCounter + 2 /\ lines[Len(lines)] = <<>>)
        /\ (pc = "csv_done" =>
                /\ Len(lines) = n + 2
                /\ lines[n + 2] = <<>>
                /\ lines[1] = JoinComma(in_file.point_format)
                /\ \A i \in 1 .. n : lines[i + 1] = csv_line(main_file, in_file.points[i])
                /\ ((n = 3 /\ in_file.point_format = <<"X", "Y", "Z">>) =>
                        Len(lines) - 1 = 4 /\ lines[1] = <<"X", ",", "Y", ",", "Z">>))

\* C9: three points with schema X,Y,Z have been written
C9_ThreePointsWritten ==
    /\ pc = "csv_done"
    /\ Len(in_file.points) = 3
    /\ in_file.point_format = <<"X", "Y", "Z">>
    /\ Len(Split(outFile, "\n")) = 5

\* C10: batch_call leaves projection, lang, conversion, westpos, model, frame
\* and epoch as they were.
C10_BatchCallFrame ==
    [][WsBatchCall =>
            /\ wbservice'.projection = wbservice.projection
            /\ wbservice'.lang = wbservice.lang
            /\ wbservice'.conversion = wbservice.conversion
            /\ wbservice'.westpos = wbservice.westpos
            /\ wbservice'.model = wbservice.model
            /\ wbservice'.frame = wbservice.frame
            /\ wbservice'.epoch = wbservice.epoch]_vars
====
